---- MODULE Spec2Model ----
(***************************************************************************)
(* Model of client/dual_client.py: the Flower client whose fit round       *)
(* trains locally, then acts as a socket server for its subordinate nodes, *)
(* averages the parameters it holds and reports them upward.               *)
(*                                                                         *)
(* A ParameterSet is a sequence of tensors; a tensor is a sequence of      *)
(* numbers (its shape is its length).  np.mean divides, so a number is an  *)
(* exact rational <<numerator, denominator>> in lowest terms: rounding of  *)
(* the floating-point formats is outside the model.                        *)
(*                                                                         *)
(* The model starts where the client is constructed (line 167), with the   *)
(* int num_clients and port that the argument parser declares.             *)
(***************************************************************************)
EXTENDS Integers, Sequences, FiniteSets, TLC

\* ------------------------------------------------------------- bounds
MaxVal == 1        \* tensor elements range over 0..MaxVal
MaxChildren == 2   \* --num_clients ranges over 0..MaxChildren
MaxSets == 3       \* longest list handed to agg when agg is checked alone

\* ------------------------------------------------------------- data
\* len(trainloader.dataset) and len(testloader.dataset): fixed by load_data
TrainSetSize == 4
TestSetSize == 1

\* shapes of net.state_dict(): two tensors of one element each
ModelShape == <<1, 1>>

Vals == {<<v, 1>> : v \in 0..MaxVal}

Tensors(d) == [1..d -> Vals]

\* parameter sets that fit the model
WellShaped ==
  {p \in [1..Len(ModelShape) -> UNION {Tensors(ModelShape[i]) : i \in 1..Len(ModelShape)}] :
      \A i \in 1..Len(ModelShape) : Len(p[i]) = ModelShape[i]}

\* ill-shaped variants a peer may deliver: a tensor missing, a tensor too
\* many, a tensor of the wrong shape
DropLast(p) == SubSeq(p, 1, Len(p) - 1)
Extend(p) == Append(p, p[Len(p)])
Widen(p) == [p EXCEPT ![1] = Append(@, @[1])]

\* the set whose every element is v
Fill(v) == [i \in 1..Len(ModelShape) |-> [e \in 1..ModelShape[i] |-> <<v, 1>>]]

IllShaped ==
  UNION {{DropLast(p), Extend(p), Widen(p)} : p \in {Fill(0), Fill(MaxVal)}}

ParamInputs == WellShaped \cup IllShaped

Children == 1..MaxChildren

\* what a subordinate's connection delivers: one whole frame, part of one,
\* or nothing yet
Deliveries == {"frame", "partial", "stalled"}

\* ------------------------------------------------------------- rationals
RECURSIVE Gcd(_, _)
Gcd(a, b) == IF b = 0 THEN a ELSE Gcd(b, a % b)

Norm(n, d) == LET g == Gcd(n, d) IN <<n \div g, d \div g>>

RAdd(a, b) == Norm(a[1] * b[2] + b[1] * a[2], a[2] * b[2])

RDiv(a, n) == Norm(a[1], a[2] * n)

\* ------------------------------------------------------------- agg
NoResult == [err |-> "not_called", val |-> <<>>]

Raised(e) == [err |-> e, val |-> <<>>]

Returned(v) == [err |-> "", val |-> v]

\* np.sum over axis 0 of the stacked tensors, rows added in list order
RECURSIVE SumRows(_, _)
SumRows(rows, k) ==
  IF k = 1 THEN rows[1]
  ELSE LET s == SumRows(rows, k - 1)
       IN [e \in 1..Len(rows[k]) |-> RAdd(s[e], rows[k][e])]

\* the mean without its division
Mean_sum(rows) == SumRows(rows, Len(rows))

\* np.mean(np.array(rows), axis=0)
Mean(rows) ==
  LET s == SumRows(rows, Len(rows))
  IN [e \in 1..Len(s) |-> RDiv(s[e], Len(rows))]

\* [param_list[j][i] for j in range(len(param_list))]
Column(param_list, i) == [j \in 1..Len(param_list) |-> param_list[j][i]]

\* what building and stacking column i raises: a set with no tensor i is an
\* IndexError; tensors of different shapes do not stack (ValueError)
ColumnError(param_list, i) ==
  IF \E j \in 1..Len(param_list) : Len(param_list[j]) < i THEN "IndexError"
  ELSE IF \E j, k \in 1..Len(param_list) :
            Len(param_list[j][i]) # Len(param_list[k][i]) THEN "ValueError"
  ELSE ""

\* a running average: each set is averaged with the result so far
RECURSIVE RunningMean(_, _)
RunningMean(rows, k) ==
  IF k = 1 THEN rows[1]
  ELSE LET s == RunningMean(rows, k - 1)
       IN [e \in 1..Len(rows[k]) |-> RDiv(RAdd(s[e], rows[k][e]), 2)]

Agg_running(param_list) ==
  IF param_list = <<>> THEN Raised("IndexError")
  ELSE LET n == Len(param_list[1])
           bad == {i \in 1..n : ColumnError(param_list, i) # ""}
       IN IF bad # {}
          THEN Raised(ColumnError(param_list, CHOOSE i \in bad : \A k \in bad : i <= k))
          ELSE Returned([i \in 1..n |->
                 RunningMean(Column(param_list, i), Len(param_list))])

Agg(param_list) ==
  IF param_list = <<>> THEN Raised("IndexError")
  ELSE LET n == Len(param_list[1])
           bad == {i \in 1..n : ColumnError(param_list, i) # ""}
       IN IF bad # {}
          THEN Raised(ColumnError(param_list, CHOOSE i \in bad : \A k \in bad : i <= k))
          ELSE Returned([i \in 1..n |-> Mean(Column(param_list, i))])

\* ------------------------------------------------------------- model state
\* net.load_state_dict(OrderedDict(zip(keys, parameters)), strict=True): zip
\* stops at the shorter of the two; a tensor of the right shape is copied, one
\* of the wrong shape or a missing one is reported after the others are copied
SetParameters(cur, parameters) ==
  LET fits(i) == i <= Len(parameters) /\ Len(parameters[i]) = ModelShape[i]
  IN [net |-> [i \in 1..Len(cur) |-> IF fits(i) THEN parameters[i] ELSE cur[i]],
      err |-> IF \A i \in 1..Len(cur) : fits(i) THEN "" ELSE "RuntimeError"]

\* len of a list that is still empty, as in range(len(recv_params))
PyLen_empty(x) == Returned(0)

\* len(x): defined on sized objects, a TypeError on an int
PyLen(x) == IF x \in Int THEN Raised("TypeError") ELSE Returned(Len(x))

\* conn.recv(): socket.recv needs its bufsize argument
SockRecv(conn) == Raised("TypeError")

VARIABLES
  num_clients,   \* self.num_clients
  net,           \* net.state_dict(): the model's current parameters
  pc,            \* where the handler in progress stands
  op,            \* the handler in progress or last run: fit / evaluate
  sock_state,    \* self.serversocket: bound / listening
  backlog,       \* backlog of the last listen()
  binds,         \* bind() calls made so far
  pending,       \* connections waiting in the accept queue: [src, data]
  accepted,      \* accepted connections not yet closed
  sock_calls,    \* socket calls this handler has made, in order
  recv_params,   \* fit's local list
  param_list,    \* argument of the last agg call of this handler (<<>>: none)
  final_params,  \* result of that agg call
  err,           \* exception the handler raised
  ret            \* value the handler returned

vars == <<num_clients, net, pc, op, sock_state, backlog, binds, pending, accepted,
          sock_calls, recv_params, param_list, final_params, err, ret>>

NoErr == [name |-> "", line |-> 0]

NoRet == [params |-> <<>>, num_examples |-> 0, loss |-> 0, metrics |-> <<>>]

Init ==
  /\ num_clients \in 0..MaxChildren
  /\ net \in WellShaped
  /\ pc = "start"
  /\ op = "none"
  /\ sock_state = "none"
  /\ backlog = 0
  /\ binds = 0
  /\ pending = <<>>
  /\ accepted = {}
  /\ sock_calls = <<>>
  /\ recv_params = <<>>
  /\ param_list = <<>>
  /\ final_params = NoResult
  /\ err = NoErr
  /\ ret = NoRet

\* __init__, lines 123-126, called at line 167: the socket is created and
\* bound; a bind on an address in use raises OSError out of the constructor,
\* before start_client is called
Construct(in_use) ==
  /\ pc = "start"
  /\ binds' = binds + 1
  /\ sock_state' = IF in_use THEN "bind_failed" ELSE "bound"
  /\ pc' = IF in_use THEN "exited" ELSE "idle"
  /\ err' = IF in_use THEN [name |-> "OSError", line |-> 126] ELSE NoErr
  /\ UNCHANGED <<num_clients, net, op, backlog, pending, accepted, sock_calls,
                 recv_params, param_list, final_params, ret>>

\* rounds served whether or not the client was constructed
Between_always == TRUE

\* start_client, lines 165-168: the next fit or evaluate is served once the
\* handler before it has returned; an exception a handler raises is not
\* caught there and ends the process
Between == pc \in {"idle", "done"}

InSeq(s) == {s[i] : i \in 1..Len(s)}

Sources(conns) == {conn.src : conn \in conns}

\* a subordinate connects to the node's port, open while the process lives
Connect(c, d) ==
  /\ sock_state = "listening"
  /\ pc # "raised"
  /\ c \notin Sources(InSeq(pending) \cup accepted)
  /\ Len(pending) <= backlog
  /\ pending' = Append(pending, [src |-> c, data |-> d])
  /\ UNCHANGED <<num_clients, net, pc, op, sock_state, backlog, binds, accepted,
                 sock_calls, recv_params, param_list, final_params, err, ret>>

\* fit, line 137: self.set_parameters(parameters)
Fit(parameters) ==
  /\ Between
  /\ LET r == SetParameters(net, parameters)
     IN /\ net' = r.net
        /\ pc' = IF r.err = "" THEN "fit_train" ELSE "raised"
        /\ err' = IF r.err = "" THEN NoErr ELSE [name |-> r.err, line |-> 134]
  /\ op' = "fit"
  /\ sock_calls' = <<>>
  /\ recv_params' = <<>>
  /\ param_list' = <<>>
  /\ final_params' = NoResult
  /\ ret' = NoRet
  /\ UNCHANGED <<num_clients, sock_state, backlog, binds, pending, accepted>>

\* fit, line 139: train(net, trainloader, epochs=1)
Train ==
  /\ pc = "fit_train"
  /\ net' \in WellShaped
  /\ pc' = "fit_listen"
  /\ UNCHANGED <<num_clients, op, sock_state, backlog, binds, pending, accepted,
                 sock_calls, recv_params, param_list, final_params, err, ret>>

\* a socket bound again in every round before it listens
Listen_rebinds ==
  /\ pc = "fit_listen"
  /\ sock_state' = "listening"
  /\ backlog' = num_clients
  /\ binds' = binds + 1
  /\ sock_calls' = sock_calls \o <<"bind", "listen">>
  /\ pc' = "fit_collect"
  /\ UNCHANGED <<num_clients, net, op, pending, accepted, recv_params,
                 param_list, final_params, err, ret>>

\* the listener opened before training instead of after it
Listen_thenTrain ==
  /\ pc = "fit_listen"
  /\ sock_state' = "listening"
  /\ backlog' = num_clients
  /\ sock_calls' = Append(sock_calls, "listen")
  /\ pc' = "fit_train"
  /\ UNCHANGED <<num_clients, net, op, binds, pending, accepted, recv_params,
                 param_list, final_params, err, ret>>

\* fit, line 141: self.serversocket.listen(self.num_clients)
Listen ==
  /\ pc = "fit_listen"
  /\ sock_state' = "listening"
  /\ backlog' = num_clients
  /\ sock_calls' = Append(sock_calls, "listen")
  /\ pc' = "fit_collect"
  /\ UNCHANGED <<num_clients, net, op, binds, pending, accepted, recv_params,
                 param_list, final_params, err, ret>>

\* fit, lines 143-148: the accept loop, run for n iterations from iteration i.
\* accept() waits for a queued connection; a raise leaves the connection open.
RECURSIVE CollectLoop(_, _, _, _, _)
CollectLoop(i, n, pend, recv, calls) ==
  IF i = n
  THEN [status |-> "ok", pend |-> pend, recv |-> recv, open |-> {},
        calls |-> calls, err |-> NoErr]
  ELSE IF pend = <<>>
  THEN [status |-> "blocked", pend |-> pend, recv |-> recv, open |-> {},
        calls |-> calls, err |-> NoErr]
  ELSE LET conn == Head(pend)
           r == SockRecv(conn)
       IN IF r.err # ""
          THEN [status |-> "raised", pend |-> Tail(pend), recv |-> recv,
                open |-> {conn}, calls |-> calls \o <<"accept", "recv">>,
                err |-> [name |-> r.err, line |-> 145]]
          ELSE CollectLoop(i + 1, n, Tail(pend), Append(recv, r.val),
                           calls \o <<"accept", "recv", "close">>)

\* fit, lines 149-156: append the own parameters, aggregate, load the result
\* into the model and return it
Aggregate(recv, cur) ==
  LET list == Append(recv, cur)
      new_params == Agg(list)
      r == SetParameters(cur, new_params.val)
  IN IF new_params.err # ""
     THEN [list |-> list, out |-> new_params, net |-> cur,
           err |-> [name |-> new_params.err, line |-> 59], ret |-> NoRet]
     ELSE IF r.err # ""
     THEN [list |-> list, out |-> new_params, net |-> r.net,
           err |-> [name |-> r.err, line |-> 134], ret |-> NoRet]
     ELSE [list |-> list, out |-> new_params, net |-> r.net, err |-> NoErr,
           ret |-> [params |-> r.net, num_examples |-> TrainSetSize,
                    loss |-> 0, metrics |-> <<>>]]

\* fit, lines 143-156: for i in range(len(self.num_clients)) and what follows
Collect ==
  /\ pc = "fit_collect"
  /\ LET n == PyLen(num_clients)
         c == CollectLoop(0, n.val, pending, recv_params, sock_calls)
         a == Aggregate(c.recv, net)
     IN IF n.err # ""
        THEN /\ pc' = "raised"
             /\ err' = [name |-> n.err, line |-> 143]
             /\ UNCHANGED <<net, pending, accepted, sock_calls, recv_params,
                            param_list, final_params, ret>>
        ELSE /\ c.status # "blocked"
             /\ pending' = c.pend
             /\ accepted' = accepted \cup c.open
             /\ sock_calls' = c.calls
             /\ IF c.status = "raised"
                THEN /\ pc' = "raised"
                     /\ err' = c.err
                     /\ recv_params' = c.recv
                     /\ UNCHANGED <<net, param_list, final_params, ret>>
                ELSE /\ recv_params' = a.list
                     /\ param_list' = a.list
                     /\ final_params' = a.out
                     /\ net' = a.net
                     /\ err' = a.err
                     /\ ret' = a.ret
                     /\ pc' = IF a.err = NoErr THEN "done" ELSE "raised"
  /\ UNCHANGED <<num_clients, op, sock_state, backlog, binds>>

\* evaluate, line 159: self.set_parameters(parameters)
Evaluate(parameters) ==
  /\ Between
  /\ LET r == SetParameters(net, parameters)
     IN /\ net' = r.net
        /\ pc' = IF r.err = "" THEN "eval_test" ELSE "raised"
        /\ err' = IF r.err = "" THEN NoErr ELSE [name |-> r.err, line |-> 134]
  /\ op' = "evaluate"
  /\ sock_calls' = <<>>
  /\ recv_params' = <<>>
  /\ param_list' = <<>>
  /\ final_params' = NoResult
  /\ ret' = NoRet
  /\ UNCHANGED <<num_clients, sock_state, backlog, binds, pending, accepted>>

\* an evaluate that opens the listener as fit does
EvalTest_listens ==
  /\ pc = "eval_test"
  /\ \E loss \in 0..MaxVal, correct \in 0..TestSetSize :
       ret' = [params |-> <<>>, num_examples |-> TestSetSize, loss |-> loss,
               metrics |-> <<<<"accuracy", Norm(correct, TestSetSize)>>>>]
  /\ pc' = "done"
  /\ sock_state' = "listening"
  /\ backlog' = num_clients
  /\ sock_calls' = Append(sock_calls, "listen")
  /\ UNCHANGED <<num_clients, net, op, binds, pending, accepted, recv_params,
                 param_list, final_params, err>>

\* evaluate, lines 160-161: test(net, testloader) and the return
EvalTest ==
  /\ pc = "eval_test"
  /\ \E loss \in 0..MaxVal, correct \in 0..TestSetSize :
       ret' = [params |-> <<>>, num_examples |-> TestSetSize, loss |-> loss,
               metrics |-> <<<<"accuracy", Norm(correct, TestSetSize)>>>>]
  /\ pc' = "done"
  /\ UNCHANGED <<num_clients, net, op, sock_state, backlog, binds, pending, accepted,
                 sock_calls, recv_params, param_list, final_params, err>>

Next ==
  \/ \E in_use \in BOOLEAN : Construct(in_use)
  \/ \E c \in Children, d \in Deliveries : Connect(c, d)
  \/ \E parameters \in ParamInputs : Fit(parameters)
  \/ Train
  \/ Listen
  \/ Collect
  \/ \E parameters \in ParamInputs : Evaluate(parameters)
  \/ EvalTest

Spec == Init /\ [][Next]_vars
\* ------------------------------------------------------------- agg alone
\* agg applied to every list of at most MaxSets parameter sets
InitAgg ==
  /\ num_clients = 0
  /\ net = CHOOSE p \in WellShaped : TRUE
  /\ pc = "idle"
  /\ op = "none"
  /\ sock_state = "bound"
  /\ backlog = 0
  /\ binds = 1
  /\ pending = <<>>
  /\ accepted = {}
  /\ sock_calls = <<>>
  /\ recv_params = <<>>
  /\ \E k \in 0..MaxSets : param_list \in [1..k -> ParamInputs]
  /\ final_params = NoResult
  /\ err = NoErr
  /\ ret = NoRet

AggCall ==
  /\ final_params = NoResult
  /\ final_params' = Agg(param_list)
  /\ UNCHANGED <<num_clients, net, pc, op, sock_state, backlog, binds, pending,
                 accepted, sock_calls, recv_params, param_list, err, ret>>

NextAgg == AggCall

SpecAgg == InitAgg /\ [][NextAgg]_vars

\* ------------------------------------------------------------- phases
Phase(p) ==
  CASE p = "idle" -> "IDLE"
    [] p = "fit_train" -> "TRAINING"
    [] p = "fit_listen" -> "TRAINING"
    [] p = "fit_collect" -> "COLLECTING"
    [] p = "eval_test" -> "EVALUATING"
    [] p = "done" -> "DONE"
    [] p = "raised" -> "FAILED"
    [] OTHER -> "NONE"

Shape(p) == [i \in 1..Len(p) |-> Len(p[i])]

SameShaped(list) == \A j, k \in 1..Len(list) : Shape(list[j]) = Shape(list[k])

Permuted(list, f) == [j \in 1..Len(list) |-> list[f[j]]]

Called == final_params # NoResult

\* ------------------------------------------------------------- claims

\* C1: in a fit round of a node with numChildren = N > 0, once collection is
\* over either the round has failed with an exception, or the aggregator was
\* entered with exactly N submissions beside the own parameters; it is never
\* entered with another number of submissions.
C1_ExactOrFail ==
  (op = "fit" /\ num_clients > 0 /\ sock_calls # <<>> /\ pc # "fit_collect")
    => /\ param_list # <<>> => Len(param_list) = num_clients + 1
       /\ param_list = <<>> => (pc = "raised" /\ err.name # "")

C1_Witness ==
  /\ op = "fit" /\ num_clients = 2 /\ pc = "raised" /\ err.line = 143
  /\ Len(pending) = 1 /\ param_list = <<>>

\* C2 (as claimed): when a node with numChildren = 2 has trained and both
\* subordinates have connected, the collection step ends the round in DONE
\* with aggregate([P1, P2, P3]) returned, P1 being the trained own parameters.
C2_TwoChildrenAggregate ==
  [][(pc = "fit_collect" /\ num_clients = 2 /\ Len(pending) = 2 /\ pc' # pc)
       => /\ pc' = "done"
          /\ Len(param_list') = 3
          /\ net \in InSeq(param_list')
          /\ ret'.params = Agg(param_list').val]_vars

\* C3 (as claimed): a leaf's fit round makes no listener call, and once it is
\* past training it ends in DONE returning (P1, localCount, {}).
C3_LeafNoListener ==
  (op = "fit" /\ num_clients = 0)
    => /\ sock_calls = <<>>
       /\ pc = "raised" => err.line = 134
       /\ pc = "done" => ret = [params |-> net, num_examples |-> TrainSetSize,
                                loss |-> 0, metrics |-> <<>>]

\* C4: the phases of a fit round only follow IDLE -> TRAINING -> COLLECTING
\* -> AGGREGATING -> DONE (a failure may end the round from any phase): no
\* listener call while training is not finished, a result only after the
\* aggregator ran, and no phase entered again within a round.
FitOrder ==
  {<<"IDLE", "TRAINING">>, <<"DONE", "TRAINING">>, <<"FAILED", "TRAINING">>,
   <<"TRAINING", "TRAINING">>, <<"TRAINING", "COLLECTING">>,
   <<"COLLECTING", "DONE">>,
   <<"IDLE", "FAILED">>, <<"DONE", "FAILED">>, <<"FAILED", "FAILED">>,
   <<"TRAINING", "FAILED">>, <<"COLLECTING", "FAILED">>}

C4_PhaseOrder ==
  [][(op' = "fit")
       => /\ pc' # pc => <<Phase(pc), Phase(pc')>> \in FitOrder
          /\ (pc' # pc /\ Phase(pc) = "TRAINING" /\ Phase(pc') = "TRAINING")
                => (pc = "fit_train" /\ pc' = "fit_listen")
          /\ Phase(pc') \in {"IDLE", "TRAINING"}
                => (sock_calls' = <<>> /\ param_list' = <<>>)
          /\ Phase(pc') = "COLLECTING" => param_list' = <<>>
          /\ Phase(pc') = "DONE"
                => (param_list' # <<>> /\ final_params'.err = ""
                    /\ ret'.params = final_params'.val)]_vars

C4_Witness ==
  /\ op = "fit" /\ pc = "raised" /\ err.line = 143
  /\ sock_calls = <<"listen">> /\ pending # <<>>

\* C5: an evaluate call makes no socket call and no aggregator call; it
\* leaves the listener as it was, sets the model's parameters only in its
\* first step and ends by reporting (loss, sampleCount, {accuracy}).
C5_EvaluateFrame ==
  [][(op' = "evaluate")
       => /\ sock_calls' = <<>> /\ param_list' = <<>> /\ recv_params' = <<>>
          /\ final_params' = NoResult
          /\ sock_state' = sock_state /\ backlog' = backlog
          /\ accepted' = accepted
          /\ Len(pending') >= Len(pending)
          /\ SubSeq(pending', 1, Len(pending)) = pending
          /\ pc = "eval_test" => net' = net
          /\ (pc = "eval_test" /\ pc' # pc)
                => /\ pc' = "done"
                   /\ ret'.num_examples = TestSetSize
                   /\ Len(ret'.metrics) = 1
                   /\ ret'.metrics[1][1] = "accuracy"]_vars

C5_Witness ==
  /\ op = "evaluate" /\ pc = "done" /\ ret.num_examples = TestSetSize
  /\ ret.metrics[1][2] = <<1, 1>> /\ net = Fill(MaxVal)
  /\ sock_state = "bound" /\ sock_calls = <<>>

\* C6 (as claimed): when fewer than numChildren subordinates have connected,
\* the collection step fails and carries exactly the submissions that did
\* arrive.
C6_IncompleteCarriesPartial ==
  [][(pc = "fit_collect" /\ Len(pending) < num_clients /\ pc' # pc)
       => /\ pc' = "raised"
          /\ Len(recv_params') = Len(pending)]_vars

\* C7 (as claimed): when fewer than numChildren subordinates have connected,
\* the round still ends in DONE, having aggregated the own parameters with
\* exactly the submissions that arrived.
C7_PartialRoundCompletes ==
  [][(pc = "fit_collect" /\ Len(pending) < num_clients /\ pc' # pc)
       => /\ pc' = "done"
          /\ Len(param_list') = Len(pending) + 1
          /\ ret'.params = final_params'.val]_vars

\* C8: for a non-empty list of same-shaped parameter sets agg returns a
\* result, and returns that same result for every permutation of the list.
C8_OrderIndependent ==
  (Called /\ param_list # <<>> /\ SameShaped(param_list))
    => /\ final_params.err = ""
       /\ \A f \in Permutations(1..Len(param_list)) :
            Agg(Permuted(param_list, f)) = final_params

C8_Witness ==
  /\ Called /\ Len(param_list) = 3 /\ SameShaped(param_list)
  /\ param_list[1] \in WellShaped
  /\ Cardinality(InSeq(param_list)) = 3

\* C9: agg of N >= 1 copies of one parameter set returns that parameter set.
C9_IdenticalIdentity ==
  (Called /\ param_list # <<>> /\ \A j \in 1..Len(param_list) : param_list[j] = param_list[1])
    => final_params = Returned(param_list[1])

C9_Witness ==
  /\ Called /\ Len(param_list) = 3 /\ Cardinality(InSeq(param_list)) = 1
  /\ param_list[1] \in WellShaped
  /\ \E i \in 1..Len(param_list[1]) : <<MaxVal, 1>> \in InSeq(param_list[1][i])

\* C10 (as claimed): agg fails whenever two of its input sets differ in
\* tensor count or in the shape of a tensor (whatever the error is called).
C10_MismatchFails ==
  (Called /\ ~SameShaped(param_list)) => final_params.err # ""
\* connections of a queue that deliver a whole frame
Whole(conns) == {i \in 1..Len(conns) : conns[i].data = "frame"}

\* C11 (as claimed): when the connection at the head of the queue delivers
\* only part of a frame, the collection step reads it, rejects it, and holds
\* afterwards no more submissions than whole frames were delivered.
C11_PartialFrameRejected ==
  [][(pc = "fit_collect" /\ pending # <<>> /\ Head(pending).data = "partial"
        /\ pc' # pc)
       => /\ Head(pending) \notin InSeq(pending')
          /\ Head(pending) \notin accepted'
          /\ Len(recv_params') <= Cardinality(Whole(pending)) + 1]_vars

\* C12 (as claimed): when one of two connected subordinates delivers a
\* malformed frame and the other a whole one, the collection step is not
\* aborted and collects the whole one.
C12_MalformedIsolated ==
  [][(pc = "fit_collect" /\ num_clients = 2 /\ Len(pending) = 2
        /\ {pending[1].data, pending[2].data} = {"partial", "frame"}
        /\ pc' # pc)
       => /\ err'.line # 143
          /\ \A i \in Whole(pending) : pending[i] \notin InSeq(pending')
          /\ Len(recv_params') >= 1]_vars

\* C13 (as claimed): a subordinate that connected first and sends nothing
\* does not keep the node from accepting and reading the one behind it.
C13_StalledDoesNotBlock ==
  [][(pc = "fit_collect" /\ Len(pending) = 2
        /\ pending[1].data = "stalled" /\ pending[2].data = "frame"
        /\ pc' # pc)
       => /\ pending[2] \notin InSeq(pending')
          /\ Len(recv_params') >= 1]_vars

\* C14 (as claimed): a fit round whose subordinates have all delivered ends
\* by reporting a sample count, the local count plus the declared weights;
\* the subordinates of this wire protocol declare none, which leaves the
\* local count.
C14_ReportsSampleCount ==
  [][(pc = "fit_collect" /\ Len(pending) >= num_clients
        /\ Whole(pending) = 1..Len(pending) /\ pc' # pc)
       => /\ pc' = "done"
          /\ ret'.num_examples = TrainSetSize]_vars

\* C15: once the client is constructed, bind has been called exactly once,
\* by the constructor; no handler calls bind, and the socket of every round
\* is that one.
C15_BoundOnce ==
  pc # "start"
    => /\ binds = 1
       /\ "bind" \notin InSeq(sock_calls)
       /\ sock_state \in {"bound", "listening", "bind_failed"}
       /\ sock_calls # <<>> => sock_state = "listening"

C15_Witness ==
  /\ op = "fit" /\ pc = "fit_collect" /\ sock_calls = <<"listen">>
  /\ binds = 1 /\ accepted = {}
  /\ \E i \in 1..Len(pending) : pending[i].data = "stalled"

\* C16: after a bind on an address in use the constructor has raised, bind
\* was tried once, and no fit or evaluate is ever served.
C16_BindFailureFatal ==
  sock_state = "bind_failed"
    => /\ pc = "exited" /\ op = "none" /\ binds = 1
       /\ err = [name |-> "OSError", line |-> 126]
       /\ sock_calls = <<>> /\ ret = NoRet /\ pending = <<>>

C16_Witness == sock_state = "bind_failed" /\ pc = "exited" /\ binds = 1

\* C17 (as claimed): a fit called with parameters that do not fit the model
\* (a tensor missing, a tensor too many, a tensor of the wrong shape) fails
\* before training and leaves the model's parameters as they were.
C17_IllShapedRejected ==
  [][(\E p \in IllShaped : Fit(p)) => (pc' = "raised" /\ net' = net)]_vars
====
